---- MODULE Spec2Model ----
(***************************************************************************)
(* Client-side state machines of the library recommendation system:        *)
(*   - AuthProvider (contexts/AuthContext.tsx): user, isLoading and the     *)
(*     async operations checkAuth, login, logout, signup, confirmEmail,     *)
(*     resendVerificationCode, with getUserRole;                            *)
(*   - ProtectedRoute (components/common/ProtectedRoute.tsx);               *)
(*   - ReadingListSelector with the reading-list API client;                *)
(*   - WriteReview, ReviewCard, VerifyEmail with EmailVerification,         *)
(*     ReadingListDetail, and the functions of services/api.ts.             *)
(* An async function is a process: one step per resumption.  A step runs   *)
(* the synchronous code up to the next await; the awaited call is answered *)
(* by the identity service (or the HTTP server) when it is made and the    *)
(* answer stays pending in the process until its next step.                *)
(***************************************************************************)
EXTENDS Integers, Sequences, FiniteSets, Bags, TLC

VARIABLES
    \* ---- identity service (aws-amplify/auth), an opaque capability
    idpSession,      \* id of the signed-in user, or NoUser
    \* ---- AuthProvider
    user,            \* useState<User | null>(null)
    isLoading,       \* useState(true)
    checkAuth,       \* the startup effect
    login,           \* a call of login(email, password)
    logout,          \* a call of logout()
    signup,          \* a call of signup(email, password, name)
    confirmEmail,    \* a call of confirmEmail(email, code)
    resendCode,      \* a call of resendVerificationCode(email)
    \* ---- ProtectedRoute
    guard,           \* props of the mounted ProtectedRoute, or NoGuard
    rendered,        \* what the mounted ProtectedRoute returned
    location,        \* current path
    \* ---- getUserRole applied to one fetchAuthSession answer
    roleIn,
    roleOut,
    \* ---- reading-list server and ReadingListSelector
    serverLists,
    bookId,
    isOpen,
    readingLists,
    rlsIsLoading,
    isAdding,
    loadCalls,
    addCalls,
    addLog,
    \* ---- WriteReview
    wrOpen,          \* the isOpen prop of the modal
    rating,          \* useState(0)
    comment,         \* useState('')
    isSubmitting,    \* useState(false)
    wrAlert,         \* the alert() on screen, or NoAlert
    createCalls,     \* calls of createReview awaiting their continuation
    lastCreate,      \* the latest POST /reviews request sent, or NoRequest
    created,         \* how many times onReviewCreated has been called
    \* ---- ReviewCard
    review,          \* the review prop
    isEditing,       \* useState(false)
    editRating,      \* useState(review.rating)
    editComment,     \* useState(review.comment)
    isUpdating,      \* useState(false)
    showDeleteConfirm, \* useState(false)
    isDeleting,      \* useState(false)
    updateCalls,     \* calls of updateReview awaiting their continuation
    deleteCalls,     \* calls of deleteReview awaiting their continuation
    lastUpdate,      \* the latest PUT /reviews/:id request sent, or NoRequest
    \* ---- VerifyEmail page and EmailVerification
    navEmail,        \* location.state?.email of the navigation to the page
    veRendered,      \* "none" before the visit, "form", or where the user was sent
    veEmail,         \* the email prop of EmailVerification
    verificationCode, \* useState('')
    isVerifying,     \* useState(false)
    isResending,     \* useState(false)
    veError,         \* useState('')
    verifyCalls,     \* calls of confirmEmail awaiting their continuation
    resendCalls,     \* calls of resendVerificationCode awaiting their continuation
    lastVerify,      \* the latest request made of the identity service
    caughtName,      \* error.name of the latest rejection handleVerifyEmail caught
    completions,     \* how many times onVerificationComplete has been called
    \* ---- one call of an API client function (services/api.ts)
    apiCall,         \* the function, and what the identity service and the server answer
    apiOut,          \* what the call did, or ApiPending
    \* ---- ReadingListDetail
    rldBookIds,      \* readingList.bookIds of the readingList prop
    rldOpen,         \* the isOpen prop
    books,           \* useState<Book[]>([]), by id
    rldIsLoading,    \* useState(false)
    rldShowDelete,   \* showDeleteConfirm, useState(false)
    rldIsDeleting,   \* isDeleting, useState(false)
    loadRuns,        \* runs of loadBooks awaiting Promise.all, a bag
    deleteListCalls, \* calls of deleteReadingList awaiting their continuation
    rldErrors,       \* how many times handleApiError has surfaced an error
    isRemoving,      \* useState<string | null>(null)
    removeRuns       \* runs of handleRemoveBook awaiting the server, a bag

authVars == <<idpSession, user, isLoading, checkAuth, login, logout,
              signup, confirmEmail, resendCode>>
guardVars == <<guard, rendered, location>>
roleVars == <<roleIn, roleOut>>
selVars == <<serverLists, bookId, isOpen, readingLists, rlsIsLoading,
             isAdding, loadCalls, addCalls, addLog>>
wrVars == <<wrOpen, rating, comment, isSubmitting, wrAlert, createCalls, lastCreate,
            created>>
rcVars == <<review, isEditing, editRating, editComment, isUpdating,
            showDeleteConfirm, isDeleting, updateCalls, deleteCalls, lastUpdate>>
veVars == <<navEmail, veRendered, veEmail, verificationCode, isVerifying,
            isResending, veError, verifyCalls, resendCalls, lastVerify,
            caughtName, completions>>
apiVars == <<apiCall, apiOut>>
rldVars == <<rldBookIds, rldOpen, books, rldIsLoading, rldShowDelete, rldIsDeleting,
             loadRuns, deleteListCalls, rldErrors>>
rmVars == <<isRemoving, removeRuns>>
uiVars == <<wrVars, rcVars, veVars, apiVars, rldVars, rmVars>>
vars == <<authVars, guardVars, roleVars, selVars, uiVars>>

----------------------------------------------------------------------------
(* Bounds *)

\* longest cognito:groups array drawn as an input of getUserRole
MaxGroups == 3
\* most add requests that may be in flight at once
MaxAddCalls == 2
\* most reading-list fetches that may be in flight at once
MaxLoadCalls == 2
\* most calls of one review operation that may be in flight at once
MaxReviewCalls == 2
\* most errors a ReadingListDetail surfaces before the model stops counting
MaxErrors == 1
\* most reviews one WriteReview creates before the model stops submitting
MaxCreated == 2
\* removals of ReadingListDetail awaiting the server at one time
MaxRemoveCalls == 2

----------------------------------------------------------------------------
(* Values *)

\* the absent user (null); idpSession holds its id when nobody is signed in
NoUserId == "null"
NoUser == [id |-> NoUserId, email |-> "", name |-> "", role |-> ""]
Users == {"u1", "u2"}
Roles == {"user", "admin", "moderator"}
GroupNames == {"admin", "moderator", "user", "staff"}

\* loginId (email) of an identity-service user, and back
EmailOf(u) == IF u = "u1" THEN "u1@x" ELSE "u2@x"
Emails == {EmailOf(u) : u \in Users}
UserOfEmail(e) == CHOOSE u \in Users : EmailOf(u) = e

\* cognito:groups claim the identity service puts in a user's access token
TokenGroups(u) == IF u = "u1" THEN <<"moderator", "admin">> ELSE <<"moderator">>

\* groups.includes(g)
Includes(groups, g) == \E i \in 1..Len(groups) : groups[i] = g

\* Answers of fetchAuthSession(): it throws, or gives a session without
\* tokens, or tokens whose payload has no cognito:groups, or a groups array.
SessionThrow == [kind |-> "throw", groups |-> <<>>]
SessionNoTokens == [kind |-> "noTokens", groups |-> <<>>]
SessionNoClaim == [kind |-> "noClaim", groups |-> <<>>]
SessionGroups(g) == [kind |-> "groups", groups |-> g]

GroupSeqs == UNION {[1..n -> GroupNames] : n \in 0..MaxGroups}
SessionResults ==
    {SessionThrow, SessionNoTokens, SessionNoClaim} \cup {SessionGroups(g) : g \in GroupSeqs}

\* fetchAuthSession() as the identity service answers it now
FetchAuthSessionResults ==
    IF idpSession = NoUserId
    THEN {SessionNoTokens, SessionThrow}
    ELSE {SessionGroups(TokenGroups(idpSession)), SessionThrow}

\* getCurrentUser() as the identity service answers it now: "throw" or a user id
GetCurrentUserResult == IF idpSession = NoUserId THEN "throw" ELSE idpSession

----------------------------------------------------------------------------
(* getUserRole *)

\* session.tokens?.accessToken?.payload['cognito:groups'] as string[] || []
GroupsOf(session) == IF session.kind = "groups" THEN session.groups ELSE <<>>

getUserRoleWrongOrder(session) ==
    IF session.kind = "throw" THEN "user"
    ELSE IF Includes(GroupsOf(session), "moderator") THEN "moderator"
    ELSE IF Includes(GroupsOf(session), "admin") THEN "admin"
    ELSE "user"

getUserRole(session) ==
    IF session.kind = "throw" THEN "user"
    ELSE IF Includes(GroupsOf(session), "admin") THEN "admin"
    ELSE IF Includes(GroupsOf(session), "moderator") THEN "moderator"
    ELSE "user"

\* the User record built by checkAuth and login (name = email; createdAt is a timestamp)
UserRecord(id, email, role) == [id |-> id, email |-> email, name |-> email, role |-> role]

\* value.isAuthenticated
isAuthenticated == user # NoUser

----------------------------------------------------------------------------
(* AuthProvider: initial state *)

NoSession == [kind |-> "none", groups |-> <<>>]

\* no call in progress
LoginIdle == [pc |-> "idle", email |-> "none", result |-> "none", uid |-> "none",
              session |-> NoSession]
CallIdle == [pc |-> "idle", result |-> "none"]

InitAuth ==
    /\ idpSession \in {NoUserId} \cup Users     \* a session may survive from an earlier page load
    /\ user = NoUser
    /\ isLoading = TRUE
    \* the mount effect has called checkAuth(), which awaits getCurrentUser()
    /\ checkAuth = [pc |-> "getCurrentUser", uid |-> GetCurrentUserResult, session |-> NoSession]
    /\ login = LoginIdle
    /\ logout = CallIdle
    /\ signup = CallIdle
    /\ confirmEmail = CallIdle
    /\ resendCode = CallIdle

----------------------------------------------------------------------------
(* checkAuth: the startup effect *)

\* getCurrentUser() answered: const role = await getUserRole()
CheckAuthGetRole ==
    /\ checkAuth.pc = "getCurrentUser"
    /\ checkAuth.uid # "throw"
    /\ \E s \in FetchAuthSessionResults :
          checkAuth' = [checkAuth EXCEPT !.pc = "getUserRole", !.session = s]
    /\ UNCHANGED <<idpSession, user, isLoading, login, logout, signup, confirmEmail, resendCode>>

\* a checkAuth whose failure path would leave the loading flag set
CheckAuthFailedStillLoading ==
    /\ checkAuth.pc = "getCurrentUser"
    /\ checkAuth.uid = "throw"
    /\ user' = NoUser
    /\ checkAuth' = [checkAuth EXCEPT !.pc = "done"]
    /\ UNCHANGED <<idpSession, isLoading, login, logout, signup, confirmEmail, resendCode>>

\* getCurrentUser() threw: catch { setUser(null) } finally { setIsLoading(false) }
CheckAuthFailed ==
    /\ checkAuth.pc = "getCurrentUser"
    /\ checkAuth.uid = "throw"
    /\ user' = NoUser
    /\ isLoading' = FALSE
    /\ checkAuth' = [checkAuth EXCEPT !.pc = "done"]
    /\ UNCHANGED <<idpSession, login, logout, signup, confirmEmail, resendCode>>

\* the record checkAuth passes to setUser; the email is signInDetails.loginId
CheckAuthUser ==
    UserRecord(checkAuth.uid, EmailOf(checkAuth.uid), getUserRole(checkAuth.session))

\* getUserRole() answered: setUser({...}) ; finally { setIsLoading(false) }
CheckAuthSetUser ==
    /\ checkAuth.pc = "getUserRole"
    /\ user' = CheckAuthUser
    /\ isLoading' = FALSE
    /\ checkAuth' = [checkAuth EXCEPT !.pc = "done"]
    /\ UNCHANGED <<idpSession, login, logout, signup, confirmEmail, resendCode>>

----------------------------------------------------------------------------
(* login *)

\* a call of login that has settled: what it delivered to its caller stays in
\* the record until the next call
LoginDone(outcome) == [LoginIdle EXCEPT !.result = outcome]

\* login(email, password) runs to await signIn(...).  signIn answers that the
\* user is signed in (the session is then this user's), that a further step is
\* needed (isSignedIn false), or throws.
LoginCall ==
    /\ login.pc = "idle"
    /\ \E e \in Emails, r \in {"signedIn", "nextStep", "throw"} :
          /\ login' = [LoginIdle EXCEPT !.pc = "signIn", !.email = e, !.result = r]
          /\ idpSession' = IF r = "signedIn" THEN UserOfEmail(e) ELSE idpSession
    /\ UNCHANGED <<user, isLoading, checkAuth, logout, signup, confirmEmail, resendCode>>

\* a login that would drop the user record when signIn throws
LoginSignInFailedClearsUser ==
    /\ login.pc = "signIn"
    /\ login.result = "throw"
    /\ login' = LoginDone("rejected")
    /\ user' = NoUser
    /\ UNCHANGED <<idpSession, isLoading, checkAuth, logout, signup, confirmEmail, resendCode>>

\* signIn threw: catch { throw error }
LoginSignInFailed ==
    /\ login.pc = "signIn"
    /\ login.result = "throw"
    /\ login' = LoginDone("rejected")
    /\ UNCHANGED <<idpSession, user, isLoading, checkAuth, logout, signup, confirmEmail, resendCode>>

\* a login that would set the user record without isSignedIn
LoginNotSignedInSetsUser ==
    /\ login.pc = "signIn"
    /\ login.result = "nextStep"
    /\ login' = LoginDone("resolved")
    /\ user' = UserRecord(UserOfEmail(login.email), login.email, "user")
    /\ UNCHANGED <<idpSession, isLoading, checkAuth, logout, signup, confirmEmail, resendCode>>

\* isSignedIn is false: nothing more is done and login resolves
LoginNotSignedIn ==
    /\ login.pc = "signIn"
    /\ login.result = "nextStep"
    /\ login' = LoginDone("resolved")
    /\ UNCHANGED <<idpSession, user, isLoading, checkAuth, logout, signup, confirmEmail, resendCode>>

\* isSignedIn: const user = await getCurrentUser()
LoginGetUser ==
    /\ login.pc = "signIn"
    /\ login.result = "signedIn"
    /\ login' = [login EXCEPT !.pc = "getCurrentUser", !.uid = GetCurrentUserResult]
    /\ UNCHANGED <<idpSession, user, isLoading, checkAuth, logout, signup, confirmEmail, resendCode>>

\* getCurrentUser() threw: catch { throw error }
LoginGetUserFailed ==
    /\ login.pc = "getCurrentUser"
    /\ login.uid = "throw"
    /\ login' = LoginDone("rejected")
    /\ UNCHANGED <<idpSession, user, isLoading, checkAuth, logout, signup, confirmEmail, resendCode>>

\* getCurrentUser() answered: const role = await getUserRole()
LoginGetRole ==
    /\ login.pc = "getCurrentUser"
    /\ login.uid # "throw"
    /\ \E s \in FetchAuthSessionResults :
          login' = [login EXCEPT !.pc = "getUserRole", !.session = s]
    /\ UNCHANGED <<idpSession, user, isLoading, checkAuth, logout, signup, confirmEmail, resendCode>>

\* a login that would keep the role of the record already held
LoginUserCachedRole ==
    UserRecord(login.uid, login.email,
               IF user # NoUser THEN user.role ELSE getUserRole(login.session))

\* the record login passes to setUser; the email is the argument of login
LoginUser == UserRecord(login.uid, login.email, getUserRole(login.session))

\* getUserRole() answered: setUser({...})
LoginSetUser ==
    /\ login.pc = "getUserRole"
    /\ user' = LoginUser
    /\ login' = LoginDone("resolved")
    /\ UNCHANGED <<idpSession, isLoading, checkAuth, logout, signup, confirmEmail, resendCode>>

----------------------------------------------------------------------------
(* logout *)

\* logout() runs to await signOut(); signOut ends the session or throws
LogoutCall ==
    /\ logout.pc = "idle"
    /\ \E r \in {"ok", "throw"} :
          /\ logout' = [pc |-> "signOut", result |-> r]
          /\ idpSession' = IF r = "ok" THEN NoUserId ELSE idpSession
    /\ UNCHANGED <<user, isLoading, checkAuth, login, signup, confirmEmail, resendCode>>

\* the user record after signOut() has answered: setUser(null), skipped by a throw
LogoutUser == IF logout.result = "ok" THEN NoUser ELSE user

\* signOut() answered: setUser(null), or catch { console.error } ; logout resolves
LogoutReturn ==
    /\ logout.pc = "signOut"
    /\ user' = LogoutUser
    /\ logout' = CallIdle
    /\ UNCHANGED <<idpSession, isLoading, checkAuth, login, signup, confirmEmail, resendCode>>

----------------------------------------------------------------------------
(* signup, confirmEmail, resendVerificationCode *)

\* signup(...) runs to await signUp(...): complete, confirmation needed, or throws
SignupCall ==
    /\ signup.pc = "idle"
    /\ \E r \in {"complete", "confirm", "throw"} :
          signup' = [pc |-> "signUp", result |-> r]
    /\ UNCHANGED <<idpSession, user, isLoading, checkAuth, login, logout, confirmEmail, resendCode>>

SignupOutcomeUnnegated ==
    IF signup.result = "throw" THEN "rejected"
    ELSE IF signup.result = "complete" THEN "needsVerification:true"
    ELSE "needsVerification:false"

\* return { needsVerification: !result.isSignUpComplete }, or catch { throw error }
SignupOutcome ==
    IF signup.result = "throw" THEN "rejected"
    ELSE IF signup.result = "complete" THEN "needsVerification:false"
    ELSE "needsVerification:true"

\* a signup that would sign the new user in once the sign-up is complete
SignupReturnSignsIn ==
    /\ signup.pc = "signUp"
    /\ signup' = CallIdle
    /\ user' = IF signup.result = "complete" THEN UserRecord("u1", EmailOf("u1"), "user") ELSE user
    /\ UNCHANGED <<idpSession, isLoading, checkAuth, login, logout, confirmEmail, resendCode>>

\* signUp() answered; what the call delivered to its caller stays in the record
SignupReturn ==
    /\ signup.pc = "signUp"
    /\ signup' = [pc |-> "idle", result |-> SignupOutcome]
    /\ UNCHANGED <<idpSession, user, isLoading, checkAuth, login, logout, confirmEmail, resendCode>>

\* confirmEmail(email, code) runs to await confirmSignUp(...)
ConfirmEmailCall ==
    /\ confirmEmail.pc = "idle"
    /\ \E r \in {"ok", "throw"} :
          confirmEmail' = [pc |-> "confirmSignUp", result |-> r]
    /\ UNCHANGED <<idpSession, user, isLoading, checkAuth, login, logout, signup, resendCode>>

\* confirmSignUp() answered: resolve, or catch { throw error }
ConfirmEmailReturn ==
    /\ confirmEmail.pc = "confirmSignUp"
    /\ confirmEmail' = CallIdle
    /\ UNCHANGED <<idpSession, user, isLoading, checkAuth, login, logout, signup, resendCode>>

\* resendVerificationCode(email) runs to await resendSignUpCode(...)
ResendCodeCall ==
    /\ resendCode.pc = "idle"
    /\ \E r \in {"ok", "throw"} :
          resendCode' = [pc |-> "resendSignUpCode", result |-> r]
    /\ UNCHANGED <<idpSession, user, isLoading, checkAuth, login, logout, signup, confirmEmail>>

\* resendSignUpCode() answered: resolve, or catch { throw error }
ResendCodeReturn ==
    /\ resendCode.pc = "resendSignUpCode"
    /\ resendCode' = CallIdle
    /\ UNCHANGED <<idpSession, user, isLoading, checkAuth, login, logout, signup, confirmEmail>>

----------------------------------------------------------------------------
(* ProtectedRoute *)

NoGuard == [mounted |-> FALSE, requireAdmin |-> FALSE, requireModerator |-> FALSE,
            hasAllowedRoles |-> FALSE, allowedRoles |-> {}]

\* every combination of the props; allowedRoles may be left out (undefined)
GuardProps ==
    {[mounted |-> TRUE, requireAdmin |-> ra, requireModerator |-> rm,
      hasAllowedRoles |-> TRUE, allowedRoles |-> ar] :
        ra \in BOOLEAN, rm \in BOOLEAN, ar \in SUBSET Roles}
    \cup
    {[mounted |-> TRUE, requireAdmin |-> ra, requireModerator |-> rm,
      hasAllowedRoles |-> FALSE, allowedRoles |-> {}] :
        ra \in BOOLEAN, rm \in BOOLEAN}

Redirects == {"/login", "/"}

\* a guard that would not wait for the startup check
ProtectedRouteNoLoadingTest(u, loading, props) ==
    IF u = NoUser THEN "/login"
    ELSE IF props.requireAdmin /\ u.role # "admin" THEN "/"
    ELSE IF props.requireModerator /\ u.role \notin {"admin", "moderator"} THEN "/"
    ELSE IF props.hasAllowedRoles /\ u.role \notin props.allowedRoles THEN "/"
    ELSE "children"

\* a guard that would skip the requireModerator test
ProtectedRouteNoModeratorTest(u, loading, props) ==
    IF loading THEN "spinner"
    ELSE IF u = NoUser THEN "/login"
    ELSE IF props.requireAdmin /\ u.role # "admin" THEN "/"
    ELSE IF props.hasAllowedRoles /\ u.role \notin props.allowedRoles THEN "/"
    ELSE "children"

\* a guard that would test the roles before the presence of a user
ProtectedRouteRolesFirst(u, loading, props) ==
    IF loading THEN "spinner"
    ELSE IF props.requireAdmin /\ (u = NoUser \/ u.role # "admin") THEN "/"
    ELSE IF u = NoUser THEN "/login"
    ELSE IF props.requireModerator /\ u.role \notin {"admin", "moderator"} THEN "/"
    ELSE IF props.hasAllowedRoles /\ u.role \notin props.allowedRoles THEN "/"
    ELSE "children"

\* a guard that would admit a user who passes any one of the role conditions set
ProtectedRouteAnyCondition(u, loading, props) ==
    IF loading THEN "spinner"
    ELSE IF u = NoUser THEN "/login"
    ELSE IF ~(props.requireAdmin \/ props.requireModerator \/ props.hasAllowedRoles) THEN "children"
    ELSE IF \/ props.requireAdmin /\ u.role = "admin"
            \/ props.requireModerator /\ u.role \in {"admin", "moderator"}
            \/ props.hasAllowedRoles /\ u.role \in props.allowedRoles
         THEN "children"
    ELSE "/"

\* what ProtectedRoute returns for the auth snapshot (u, loading): the spinner,
\* <Navigate to="/login">, <Navigate to="/"> or the children
ProtectedRoute(u, loading, props) ==
    IF loading THEN "spinner"
    ELSE IF u = NoUser THEN "/login"
    ELSE IF props.requireAdmin /\ u.role # "admin" THEN "/"
    ELSE IF props.requireModerator /\ u.role \notin {"admin", "moderator"} THEN "/"
    ELSE IF props.hasAllowedRoles /\ u.role \notin props.allowedRoles THEN "/"
    ELSE "children"

InitGuard ==
    /\ guard = NoGuard
    /\ rendered = "none"
    /\ location = "/"

\* a guarded route is requested: ProtectedRoute is mounted and rendered
Visit ==
    /\ rendered \notin Redirects
    /\ \E props \in GuardProps :
          /\ guard' = props
          /\ rendered' = ProtectedRoute(user, isLoading, props)
    /\ location' = "guarded"
    /\ UNCHANGED authVars

\* the rendered <Navigate replace> changes the location; the guard is unmounted
Redirect ==
    /\ rendered \in Redirects
    /\ location' = rendered
    /\ guard' = NoGuard
    /\ rendered' = "none"
    /\ UNCHANGED authVars

\* a step A of the AuthProvider: the context value changes and a mounted guard
\* renders again; a pending <Navigate> takes effect before any further event
WithRender(A) ==
    /\ rendered \notin Redirects
    /\ A
    /\ UNCHANGED <<guard, location>>
    /\ rendered' = IF guard.mounted THEN ProtectedRoute(user', isLoading', guard) ELSE "none"

----------------------------------------------------------------------------
(* getUserRole on one answer of fetchAuthSession *)

InitRole ==
    /\ roleIn = NoSession
    /\ roleOut = "none"

\* the answers drawn as inputs
InitRoleInput ==
    /\ roleIn \in SessionResults
    /\ roleOut = "none"

GetUserRoleCall ==
    /\ roleOut = "none"
    /\ roleOut' = getUserRole(roleIn)
    /\ UNCHANGED roleIn

----------------------------------------------------------------------------
(* Reading-list server and ReadingListSelector *)

Lists == {"L1", "L2"}
Books == {"b1", "b2"}
NoList == "null"
NoLists == [l \in {} |-> {}]                  \* useState<ReadingList[]>([])

\* Calls in flight.  GET /reading-lists: how many are sent and not answered, and
\* the answers not yet delivered.  PUT per list: how many are sent, answered ok,
\* answered with an error (or failed before sending).
NoLoadCalls == [sent |-> 0, answered |-> {}]
NoAddCalls == [l \in Lists |-> [sent |-> 0, ok |-> 0, error |-> 0]]
LoadsInFlight == loadCalls.sent + Cardinality(loadCalls.answered)
AddsOf(l) == addCalls[l].sent + addCalls[l].ok + addCalls[l].error
AddsInFlight == AddsOf("L1") + AddsOf("L2")

InitSelIdle ==
    /\ serverLists = [l \in Lists |-> {}]
    /\ bookId = "b1"
    /\ isOpen = FALSE
    /\ readingLists = NoLists
    /\ rlsIsLoading = FALSE
    /\ isAdding = NoList
    /\ loadCalls = NoLoadCalls
    /\ addCalls = NoAddCalls
    /\ addLog = {}

\* the selector is mounted closed for a book, over some lists on the server
InitSel ==
    /\ serverLists \in [Lists -> SUBSET Books]
    /\ bookId = "b1"
    /\ isOpen = FALSE
    /\ readingLists = NoLists
    /\ rlsIsLoading = FALSE
    /\ isAdding = NoList
    /\ loadCalls = NoLoadCalls
    /\ addCalls = NoAddCalls
    /\ addLog = {}

\* isOpen becomes true: the effect calls loadReadingLists(), which sets
\* isLoading and sends GET /reading-lists (getReadingLists)
SelOpen ==
    /\ ~isOpen
    /\ LoadsInFlight < MaxLoadCalls
    /\ isOpen' = TRUE
    /\ rlsIsLoading' = TRUE
    /\ loadCalls' = [loadCalls EXCEPT !.sent = @ + 1]
    /\ UNCHANGED <<serverLists, bookId, readingLists, isAdding, addCalls, addLog>>

\* Cancel, or the modal's own close control: the parent's onClose
SelClose ==
    /\ isOpen
    /\ isOpen' = FALSE
    /\ UNCHANGED <<serverLists, bookId, readingLists, rlsIsLoading, isAdding,
                   loadCalls, addCalls, addLog>>

\* the server answers a GET /reading-lists: the lists as they are now, or an error
ServerLoad ==
    /\ loadCalls.sent > 0
    /\ \E ok \in BOOLEAN :
          loadCalls' = [sent |-> loadCalls.sent - 1,
                        answered |-> loadCalls.answered \cup
                            {[ok |-> ok, lists |-> IF ok THEN serverLists ELSE NoLists]}]
    /\ UNCHANGED <<serverLists, bookId, isOpen, readingLists, rlsIsLoading, isAdding,
                   addCalls, addLog>>

\* getReadingLists() settles with answer r: setReadingLists(lists) or
\* handleApiError(error); finally setIsLoading(false)
LoadReturn(r) ==
    /\ r \in loadCalls.answered
    /\ readingLists' = IF r.ok THEN r.lists ELSE readingLists
    /\ rlsIsLoading' = FALSE
    /\ loadCalls' = [loadCalls EXCEPT !.answered = @ \ {r}]
    /\ UNCHANGED <<serverLists, bookId, isOpen, isAdding, addCalls, addLog>>

\* the row of list l shows the "Add to List" button, enabled
AddButtonEnabled(l) ==
    /\ isOpen
    /\ ~rlsIsLoading
    /\ l \in DOMAIN readingLists
    /\ bookId \notin readingLists[l]          \* isBookInList
    /\ isAdding # l                           \* disabled={isCurrentlyAdding}

\* click on "Add to List" of list l: handleAddToList sets isAdding and calls
\* addBookToReadingList, which throws when there is no current user and
\* otherwise sends PUT /reading-lists/l {action: add, bookId}
ClickAdd(l) ==
    /\ AddButtonEnabled(l)
    /\ AddsInFlight < MaxAddCalls
    /\ isAdding' = l
    /\ addCalls' = IF idpSession = NoUserId
                   THEN [addCalls EXCEPT ![l].error = @ + 1]
                   ELSE [addCalls EXCEPT ![l].sent = @ + 1]
    /\ addLog' = IF idpSession = NoUserId THEN addLog
                 ELSE addLog \cup {[list |-> l, book |-> bookId,
                                    present |-> bookId \in serverLists[l]]}
    /\ UNCHANGED <<serverLists, bookId, isOpen, readingLists, rlsIsLoading, loadCalls>>

\* the server answers a PUT for list l: the book is in the list from now on, or an error
ServerAdd(l) ==
    /\ addCalls[l].sent > 0
    /\ \E ok \in BOOLEAN :
          /\ addCalls' = IF ok
                         THEN [addCalls EXCEPT ![l].sent = @ - 1, ![l].ok = @ + 1]
                         ELSE [addCalls EXCEPT ![l].sent = @ - 1, ![l].error = @ + 1]
          /\ serverLists' = IF ok THEN [serverLists EXCEPT ![l] = @ \cup {bookId}]
                            ELSE serverLists
    /\ UNCHANGED <<bookId, isOpen, readingLists, rlsIsLoading, isAdding, loadCalls, addLog>>

\* addBookToReadingList resolves: showSuccess, onClose(); finally setIsAdding(null)
AddResolved(l) ==
    /\ addCalls[l].ok > 0
    /\ isOpen' = FALSE
    /\ isAdding' = NoList
    /\ addCalls' = [addCalls EXCEPT ![l].ok = @ - 1]
    /\ UNCHANGED <<serverLists, bookId, readingLists, rlsIsLoading, loadCalls, addLog>>

\* addBookToReadingList rejects: handleApiError; finally setIsAdding(null)
AddRejected(l) ==
    /\ addCalls[l].error > 0
    /\ isAdding' = NoList
    /\ addCalls' = [addCalls EXCEPT ![l].error = @ - 1]
    /\ UNCHANGED <<serverLists, bookId, isOpen, readingLists, rlsIsLoading, loadCalls, addLog>>

----------------------------------------------------------------------------
(* A settled AuthProvider, as the review and reading-list components see it *)

\* the startup check has finished and no auth operation is running; the user
\* record and the identity service's session are drawn independently, since
\* the provider's record is a copy that the session can outlive or predate
InitAuthSettled ==
    /\ idpSession \in {NoUserId} \cup Users
    /\ user \in {NoUser} \cup {UserRecord(u, EmailOf(u), "user") : u \in Users}
    /\ isLoading = FALSE
    /\ checkAuth = [pc |-> "done", uid |-> "none", role |-> "none"]
    /\ login = LoginIdle
    /\ logout = CallIdle
    /\ signup = CallIdle
    /\ confirmEmail = CallIdle
    /\ resendCode = CallIdle

----------------------------------------------------------------------------
(* WriteReview (components/books/WriteReview.tsx) *)

\* the five star buttons
MaxStars == 5
Stars == 1..MaxStars
\* texts of the textarea: empty, blank, and two that trim to "good"
Comments == {"", "  ", "good", " good "}
\* String.prototype.trim
Trim(c) == IF c = "  " THEN "" ELSE IF c = " good " THEN "good" ELSE c

NoAlert == "none"
NoRequest == [userId |-> NoUserId, rating |-> 0, comment |-> "", authenticated |-> FALSE]
NoCalls == [ok |-> 0, error |-> 0]
Outstanding(calls) == calls.ok + calls.error

InitWr ==
    /\ wrOpen = FALSE
    /\ rating = 0
    /\ comment = ""
    /\ isSubmitting = FALSE
    /\ wrAlert = NoAlert
    /\ createCalls = NoCalls
    /\ lastCreate = NoRequest
    /\ created = 0

\* the parent opens the modal
WrOpen ==
    /\ ~wrOpen
    /\ wrOpen' = TRUE
    /\ UNCHANGED <<rating, comment, isSubmitting, wrAlert, createCalls, lastCreate, created>>

\* the Cancel button, disabled={isSubmitting}
WrCancel ==
    /\ wrOpen /\ wrAlert = NoAlert
    /\ ~isSubmitting
    /\ wrOpen' = FALSE
    /\ UNCHANGED <<rating, comment, isSubmitting, wrAlert, createCalls, lastCreate, created>>

\* a star button: onClick={() => setRating(star)}
SetRating(star) ==
    /\ wrOpen /\ wrAlert = NoAlert
    /\ rating' = star
    /\ UNCHANGED <<wrOpen, comment, isSubmitting, wrAlert, createCalls, lastCreate, created>>

\* the textarea: onChange={(e) => setComment(e.target.value)}
SetComment(c) ==
    /\ wrOpen /\ wrAlert = NoAlert
    /\ comment' = c
    /\ UNCHANGED <<wrOpen, rating, isSubmitting, wrAlert, createCalls, lastCreate, created>>

\* the user dismisses the alert; until then the page runs nothing else
WrDismissAlert ==
    /\ wrAlert # NoAlert
    /\ wrAlert' = NoAlert
    /\ UNCHANGED <<wrOpen, rating, comment, isSubmitting, createCalls, lastCreate, created>>

\* the Submit Review button: disabled={isSubmitting || rating === 0 || !comment.trim()}
SubmitEnabled == ~(isSubmitting \/ rating = 0 \/ Trim(comment) = "")

handleSubmitNoLoginCheck(authenticated, r, c) ==
    IF r = 0 THEN "Please select a rating"
    ELSE IF Trim(c) = "" THEN "Please write a comment"
    ELSE "submit"

\* the three early returns of handleSubmit: the alert shown, or "submit"
handleSubmit(authenticated, r, c) ==
    IF ~authenticated THEN "Please log in to write a review"
    ELSE IF r = 0 THEN "Please select a rating"
    ELSE IF Trim(c) = "" THEN "Please write a comment"
    ELSE "submit"

\* a click on Submit Review: handleSubmit up to its await.  createReview asks
\* the identity service for the current user first and throws without a
\* request when there is none; otherwise it POSTs the trimmed comment.
WrSubmitClick ==
    /\ wrOpen /\ wrAlert = NoAlert
    /\ SubmitEnabled
    /\ LET verdict == handleSubmit(isAuthenticated, rating, comment) IN
       IF verdict # "submit"
       THEN /\ wrAlert' = verdict
            /\ UNCHANGED <<wrOpen, rating, comment, isSubmitting, createCalls, lastCreate, created>>
       ELSE /\ Outstanding(createCalls) < MaxReviewCalls
            /\ isSubmitting' = TRUE
            /\ IF idpSession = NoUserId
               THEN /\ createCalls' = [createCalls EXCEPT !.error = @ + 1]
                    /\ UNCHANGED lastCreate
               ELSE /\ \E r \in {"ok", "error"} :
                         createCalls' = [createCalls EXCEPT ![r] = @ + 1]
                    /\ lastCreate' = [userId |-> idpSession, rating |-> rating,
                                      comment |-> Trim(comment),
                                      authenticated |-> isAuthenticated]
            /\ created < MaxCreated
            /\ UNCHANGED <<wrOpen, rating, comment, wrAlert, created>>

\* createReview resolved: onReviewCreated, the form is reset, onClose, finally
WrSubmitResolved ==
    /\ wrAlert = NoAlert
    /\ createCalls.ok > 0
    /\ createCalls' = [createCalls EXCEPT !.ok = @ - 1]
    /\ rating' = 0
    /\ comment' = ""
    /\ wrOpen' = FALSE
    /\ isSubmitting' = FALSE
    /\ created' = created + 1
    /\ UNCHANGED <<wrAlert, lastCreate>>

\* a failed submission that would reset and close the form all the same
WrSubmitRejectedResets ==
    /\ wrAlert = NoAlert
    /\ createCalls.error > 0
    /\ createCalls' = [createCalls EXCEPT !.error = @ - 1]
    /\ rating' = 0
    /\ comment' = ""
    /\ wrOpen' = FALSE
    /\ isSubmitting' = FALSE
    /\ UNCHANGED <<wrAlert, lastCreate, created>>

\* createReview rejected: handleApiError, finally
WrSubmitRejected ==
    /\ wrAlert = NoAlert
    /\ createCalls.error > 0
    /\ createCalls' = [createCalls EXCEPT !.error = @ - 1]
    /\ isSubmitting' = FALSE
    /\ UNCHANGED <<wrOpen, rating, comment, wrAlert, lastCreate, created>>

----------------------------------------------------------------------------
(* ReviewCard (components/books/ReviewCard) *)

\* the review records a card can be given: the rating and the comment are
\* whatever the server stored
Reviews == [userId : {"u1"}, rating : {0} \cup Stars, comment : Comments]

\* the edit state starts as a copy of the review
InitRcOf(r) ==
    /\ review = r
    /\ isEditing = FALSE
    /\ editRating = r.rating
    /\ editComment = r.comment
    /\ isUpdating = FALSE
    /\ showDeleteConfirm = FALSE
    /\ isDeleting = FALSE
    /\ updateCalls = NoCalls
    /\ deleteCalls = NoCalls
    /\ lastUpdate = NoRequest

isOwnReview == isAuthenticated /\ user.id = review.userId

\* the edit and delete icons, rendered for the owner; a modal covers the card
RcStartEdit ==
    /\ isOwnReview /\ ~isEditing /\ ~showDeleteConfirm
    /\ isEditing' = TRUE
    /\ UNCHANGED <<review, editRating, editComment, isUpdating, showDeleteConfirm,
                   isDeleting, updateCalls, deleteCalls, lastUpdate>>

RcAskDelete ==
    /\ isOwnReview /\ ~isEditing /\ ~showDeleteConfirm
    /\ showDeleteConfirm' = TRUE
    /\ UNCHANGED <<review, isEditing, editRating, editComment, isUpdating,
                   isDeleting, updateCalls, deleteCalls, lastUpdate>>

\* the stars and the textarea of the edit modal
SetEditRating(star) ==
    /\ isEditing
    /\ editRating' = star
    /\ UNCHANGED <<review, isEditing, editComment, isUpdating, showDeleteConfirm,
                   isDeleting, updateCalls, deleteCalls, lastUpdate>>

SetEditComment(c) ==
    /\ isEditing
    /\ editComment' = c
    /\ UNCHANGED <<review, isEditing, editRating, isUpdating, showDeleteConfirm,
                   isDeleting, updateCalls, deleteCalls, lastUpdate>>

\* the Cancel buttons, disabled while their request is out
RcCancelEdit ==
    /\ isEditing /\ ~isUpdating
    /\ isEditing' = FALSE
    /\ UNCHANGED <<review, editRating, editComment, isUpdating, showDeleteConfirm,
                   isDeleting, updateCalls, deleteCalls, lastUpdate>>

RcCancelDelete ==
    /\ showDeleteConfirm /\ ~isDeleting
    /\ showDeleteConfirm' = FALSE
    /\ UNCHANGED <<review, isEditing, editRating, editComment, isUpdating,
                   isDeleting, updateCalls, deleteCalls, lastUpdate>>

UpdateEnabledWhileUpdating == ~(Trim(editComment) = "")

\* the Update Review button: disabled={isUpdating || !editComment.trim()}
UpdateEnabled == ~(isUpdating \/ Trim(editComment) = "")

\* a click on Update Review: handleUpdateReview up to its await; its only
\* early return is for a blank comment.  updateReview throws without a request
\* when the identity service has no current user.
RcUpdateClick ==
    /\ isEditing /\ UpdateEnabled
    /\ Trim(editComment) # ""
    /\ Outstanding(updateCalls) < MaxReviewCalls
    /\ isUpdating' = TRUE
    /\ IF idpSession = NoUserId
       THEN /\ updateCalls' = [updateCalls EXCEPT !.error = @ + 1]
            /\ UNCHANGED lastUpdate
       ELSE /\ \E r \in {"ok", "error"} :
                 updateCalls' = [updateCalls EXCEPT ![r] = @ + 1]
            /\ lastUpdate' = [userId |-> idpSession, rating |-> editRating,
                              comment |-> Trim(editComment),
                              authenticated |-> isAuthenticated]
    /\ UNCHANGED <<review, isEditing, editRating, editComment, showDeleteConfirm,
                   isDeleting, deleteCalls>>

\* updateReview resolved: onReviewUpdated, setIsEditing(false), finally
RcUpdateResolved ==
    /\ updateCalls.ok > 0
    /\ updateCalls' = [updateCalls EXCEPT !.ok = @ - 1]
    /\ isEditing' = FALSE
    /\ isUpdating' = FALSE
    /\ UNCHANGED <<review, editRating, editComment, showDeleteConfirm,
                   isDeleting, deleteCalls, lastUpdate>>

\* updateReview rejected: handleApiError, finally
RcUpdateRejected ==
    /\ updateCalls.error > 0
    /\ updateCalls' = [updateCalls EXCEPT !.error = @ - 1]
    /\ isUpdating' = FALSE
    /\ UNCHANGED <<review, isEditing, editRating, editComment, showDeleteConfirm,
                   isDeleting, deleteCalls, lastUpdate>>

\* a click on Delete Review (disabled={isDeleting}): handleDeleteReview up to
\* its await
RcDeleteClick ==
    /\ showDeleteConfirm /\ ~isDeleting
    /\ Outstanding(deleteCalls) < MaxReviewCalls
    /\ isDeleting' = TRUE
    /\ IF idpSession = NoUserId
       THEN deleteCalls' = [deleteCalls EXCEPT !.error = @ + 1]
       ELSE \E r \in {"ok", "error"} :
                 deleteCalls' = [deleteCalls EXCEPT ![r] = @ + 1]
    /\ UNCHANGED <<review, isEditing, editRating, editComment, isUpdating,
                   showDeleteConfirm, updateCalls, lastUpdate>>

\* deleteReview resolved: onReviewDeleted, setShowDeleteConfirm(false), finally
RcDeleteResolved ==
    /\ deleteCalls.ok > 0
    /\ deleteCalls' = [deleteCalls EXCEPT !.ok = @ - 1]
    /\ showDeleteConfirm' = FALSE
    /\ isDeleting' = FALSE
    /\ UNCHANGED <<review, isEditing, editRating, editComment, isUpdating,
                   updateCalls, lastUpdate>>

\* deleteReview rejected: handleApiError, finally
RcDeleteRejected ==
    /\ deleteCalls.error > 0
    /\ deleteCalls' = [deleteCalls EXCEPT !.error = @ - 1]
    /\ isDeleting' = FALSE
    /\ UNCHANGED <<review, isEditing, editRating, editComment, isUpdating,
                   showDeleteConfirm, updateCalls, lastUpdate>>

\* a card of a good review, untouched
InitRc == InitRcOf([userId |-> "u1", rating |-> MaxStars, comment |-> "good"])

----------------------------------------------------------------------------
(* VerifyEmail (pages/VerifyEmail) and EmailVerification *)

\* what a navigation to the page can carry as location.state?.email
NavEmails == {"undefined", ""} \cup Emails
\* texts of the code input: empty, blank, a code
Codes == {"", "  ", "123456"}
\* error.name of a rejected confirmSignUp
ConfirmErrors == {"CodeMismatchException", "ExpiredCodeException",
                  "LimitExceededException", "Error"}

InitVe ==
    /\ navEmail = "undefined"
    /\ veRendered = "none"
    /\ veEmail = ""
    /\ verificationCode = ""
    /\ isVerifying = FALSE
    /\ isResending = FALSE
    /\ veError = ""
    /\ verifyCalls = NoCalls
    /\ resendCalls = NoCalls
    /\ lastVerify = [op |-> "none", email |-> "", code |-> ""]
    /\ caughtName = "none"
    /\ completions = 0

VerifyEmailAlwaysForm(email) == "form"

\* what VerifyEmail returns: if (!email) <Navigate to="/signup" replace />
VerifyEmail(email) == IF email \in {"undefined", ""} THEN "/signup" ELSE "form"

\* a navigation to the page: VerifyEmail renders and, unless it redirects,
\* mounts EmailVerification with the email as its prop
VisitVerifyEmail(e) ==
    /\ veRendered = "none"
    /\ navEmail' = e
    /\ veRendered' = VerifyEmail(e)
    /\ veEmail' = IF VerifyEmail(e) = "form" THEN e ELSE veEmail
    /\ UNCHANGED <<verificationCode, isVerifying, isResending, veError,
                   verifyCalls, resendCalls, lastVerify, caughtName, completions>>

\* the code input: onChange sets the code and clears the error
SetCode(c) ==
    /\ veRendered = "form"
    /\ verificationCode' = c
    /\ veError' = ""
    /\ UNCHANGED <<navEmail, veRendered, veEmail, isVerifying, isResending,
                   verifyCalls, resendCalls, lastVerify, caughtName, completions>>

\* the Verify Email button: disabled={isVerifying || !verificationCode.trim()}
VerifyEnabled == ~(isVerifying \/ Trim(verificationCode) = "")

\* the form is submitted: handleVerifyEmail up to its await
VerifyClick ==
    /\ veRendered = "form" /\ VerifyEnabled
    /\ Trim(verificationCode) # ""
    /\ Outstanding(verifyCalls) < MaxReviewCalls
    /\ isVerifying' = TRUE
    /\ veError' = ""
    /\ \E r \in {"ok", "error"} : verifyCalls' = [verifyCalls EXCEPT ![r] = @ + 1]
    /\ lastVerify' = [op |-> "confirm", email |-> veEmail, code |-> Trim(verificationCode)]
    /\ UNCHANGED <<navEmail, veRendered, veEmail, verificationCode, isResending, resendCalls,
                   caughtName, completions>>

\* confirmEmail resolved: onVerificationComplete(), navigate('/login'), finally
VerifyResolved ==
    /\ verifyCalls.ok > 0
    /\ verifyCalls' = [verifyCalls EXCEPT !.ok = @ - 1]
    /\ completions' = completions + 1
    /\ veRendered' = "/login"
    /\ isVerifying' = FALSE
    /\ UNCHANGED <<navEmail, veEmail, verificationCode, isResending, veError,
                   resendCalls, lastVerify, caughtName>>

\* every rejection shows the generic message
VerifyRejectedGeneric(name) ==
    /\ verifyCalls.error > 0
    /\ verifyCalls' = [verifyCalls EXCEPT !.error = @ - 1]
    /\ caughtName' = name
    /\ veError' = "Failed to verify email. Please try again."
    /\ isVerifying' = FALSE
    /\ UNCHANGED <<navEmail, veRendered, veEmail, verificationCode, isResending,
                   resendCalls, lastVerify, completions>>

\* confirmEmail rejected with an error of this name: setError, finally
VerifyRejected(name) ==
    /\ verifyCalls.error > 0
    /\ verifyCalls' = [verifyCalls EXCEPT !.error = @ - 1]
    /\ caughtName' = name
    /\ veError' = IF name = "CodeMismatchException"
                    THEN "Invalid verification code. Please check and try again."
                  ELSE IF name = "ExpiredCodeException"
                    THEN "Verification code has expired. Please request a new one."
                  ELSE IF name = "LimitExceededException"
                    THEN "Too many attempts. Please wait before trying again."
                  ELSE "Failed to verify email. Please try again."
    /\ isVerifying' = FALSE
    /\ UNCHANGED <<navEmail, veRendered, veEmail, verificationCode, isResending,
                   resendCalls, lastVerify, completions>>

\* a click on the resend button (disabled={isResending}): handleResendCode up
\* to its await
ResendClick ==
    /\ veRendered = "form" /\ ~isResending
    /\ Outstanding(resendCalls) < MaxReviewCalls
    /\ isResending' = TRUE
    /\ veError' = ""
    /\ \E r \in {"ok", "error"} : resendCalls' = [resendCalls EXCEPT ![r] = @ + 1]
    /\ lastVerify' = [op |-> "resend", email |-> veEmail, code |-> ""]
    /\ UNCHANGED <<navEmail, veRendered, veEmail, verificationCode, isVerifying, verifyCalls,
                   caughtName, completions>>

\* resendVerificationCode settled: showSuccess or handleApiError, finally
ResendSettled(r) ==
    /\ resendCalls[r] > 0
    /\ resendCalls' = [resendCalls EXCEPT ![r] = @ - 1]
    /\ isResending' = FALSE
    /\ UNCHANGED <<navEmail, veRendered, veEmail, verificationCode, isVerifying, veError,
                   verifyCalls, lastVerify, caughtName, completions>>

\* the Back to signup button
BackToSignup ==
    /\ veRendered = "form"
    /\ veRendered' = "/signup"
    /\ UNCHANGED <<navEmail, veEmail, verificationCode, isVerifying, isResending, veError,
                   verifyCalls, resendCalls, lastVerify, caughtName, completions>>

----------------------------------------------------------------------------
(* The API client (services/api.ts) *)

ApiFunctions ==
    {"getBooks", "getBook", "createBook", "updateBook", "deleteBook",
     "getRecommendations", "getReadingLists", "createReadingList",
     "updateReadingList", "deleteReadingList", "addBookToReadingList",
     "removeBookFromReadingList", "getReviews", "createReview", "updateReview",
     "deleteReview", "getAdminMetrics"}
\* no function asks for the current user
RequiresUserNowhere == {}

\* the functions that begin with await getCurrentUser() outside any inner try
RequiresUser ==
    {"deleteReadingList", "addBookToReadingList", "removeBookFromReadingList",
     "createReview", "updateReview", "deleteReview"}
FixedMessageNowhere == {}

\* the functions whose error is new Error('Failed to ...') with nothing appended
FixedMessage == {"getBooks", "getBook", "createReadingList", "updateReadingList"}

\* the inputs of one call: getCurrentUser answers a user id or throws,
\* fetchAuthSession throws, answers without tokens, or answers with an id
\* token, and the server answers with a status
ApiCalls ==
    [fn : ApiFunctions, user : {"throw"} \cup Users,
     session : {"throw", "noTokens", "token"}, status : {"200", "404", "500"}]
ApiPending ==
    [requests |-> 0, authorization |-> "none", userId |-> "none",
     outcome |-> "pending", message |-> {}]

getAuthHeadersAlways(session) == "Bearer token"

\* the Authorization header of getAuthHeaders(), "absent" when it returns
\* only the Content-Type
getAuthHeaders(session) == IF session = "token" THEN "Bearer token" ELSE "absent"

\* what a call does: the requests it sends, their Authorization header and
\* user id, and whether it returns a value, returns null or throws, with the
\* parts of the thrown message
ApiResult(c) ==
    IF c.fn \in RequiresUser /\ c.user = "throw"
    THEN [ApiPending EXCEPT !.outcome = "throw", !.message = {"getCurrentUser"}]
    ELSE [requests |-> 1,
          authorization |-> getAuthHeaders(c.session),
          userId |-> IF c.fn \in RequiresUser THEN c.user
                     ELSE IF c.fn = "getReadingLists"
                       THEN (IF c.user = "throw" THEN "test-user-123" ELSE c.user)
                     ELSE "none",
          outcome |-> IF c.status = "200" THEN "value"
                      ELSE IF c.fn = "getBook" /\ c.status = "404" THEN "null"
                      ELSE "throw",
          message |-> IF c.status = "200" \/ (c.fn = "getBook" /\ c.status = "404")
                        THEN {}
                      ELSE IF c.fn \in FixedMessage THEN {"Failed to"}
                      ELSE {"Failed to", c.status, "errorText"}]

\* no call is made
InitApi ==
    /\ apiCall = [fn |-> "getBooks", user |-> "throw", session |-> "throw", status |-> "200"]
    /\ apiOut = ApiPending

\* the call runs to its end
ApiRun ==
    /\ apiOut = ApiPending
    /\ apiOut' = ApiResult(apiCall)
    /\ UNCHANGED apiCall

----------------------------------------------------------------------------
(* ReadingListDetail (components/reading-lists/ReadingListDetail) *)

\* the bookIds a reading list can hold: the books in any order, none twice
BookIdLists ==
    {<<>>} \cup {<<b>> : b \in Books}
           \cup {s \in Books \X Books : s[1] # s[2]}

\* what one getBook(id) does: the book, null for a 404, or it throws
GetBookAnswers == {"ok", "notfound", "fail"}

InitRld ==
    /\ rldBookIds = <<>>
    /\ rldOpen = FALSE
    /\ books = <<>>
    /\ rldIsLoading = FALSE
    /\ rldShowDelete = FALSE
    /\ rldIsDeleting = FALSE
    /\ loadRuns = EmptyBag
    /\ deleteListCalls = NoCalls
    /\ rldErrors = 0
    /\ isRemoving = "null"
    /\ removeRuns = EmptyBag

\* the parent renders the component with these props.  The effect on
\* [isOpen, readingList.bookIds] then runs: open with book ids, loadBooks()
\* runs to its await, one getBook per id, each answered when it is made;
\* open without book ids, setBooks([]).
RldRender(open, ids) ==
    /\ rldOpen' = open
    /\ rldBookIds' = ids
    /\ IF open /\ Len(ids) > 0
       THEN /\ BagCardinality(loadRuns) < MaxLoadCalls
            /\ rldIsLoading' = TRUE
            /\ \E answers \in [1..Len(ids) -> GetBookAnswers] :
                  loadRuns' = loadRuns (+) SetToBag({[ids |-> ids, answers |-> answers]})
            /\ UNCHANGED books
       ELSE /\ books' = IF open THEN <<>> ELSE books
            /\ UNCHANGED <<rldIsLoading, loadRuns>>
    /\ UNCHANGED <<rldShowDelete, rldIsDeleting, deleteListCalls, rldErrors>>

\* bookResults.filter(book => book !== null), by id
ValidBooks(run) ==
    SelectSeq([i \in 1..Len(run.ids) |->
                  IF run.answers[i] = "ok" THEN run.ids[i] ELSE "null"],
              LAMBDA b : b # "null")

LoadSettledPartial(run) ==
    /\ run \in BagToSet(loadRuns)
    /\ loadRuns' = loadRuns (-) SetToBag({run})
    /\ IF \E i \in 1..Len(run.ids) : run.answers[i] = "fail"
       THEN /\ rldErrors < MaxErrors
            /\ rldErrors' = rldErrors + 1
            /\ books' = ValidBooks(run)
       ELSE /\ books' = ValidBooks(run)
            /\ UNCHANGED rldErrors
    /\ rldIsLoading' = FALSE
    /\ UNCHANGED <<rldBookIds, rldOpen, rldShowDelete, rldIsDeleting, deleteListCalls>>

\* Promise.all settled: it rejects as soon as one getBook has thrown (catch:
\* handleApiError once), and otherwise resolves with every result
\* (setBooks(validBooks)); finally setIsLoading(false)
LoadSettled(run) ==
    /\ run \in BagToSet(loadRuns)
    /\ loadRuns' = loadRuns (-) SetToBag({run})
    /\ IF \E i \in 1..Len(run.ids) : run.answers[i] = "fail"
       THEN /\ rldErrors < MaxErrors
            /\ rldErrors' = rldErrors + 1
            /\ UNCHANGED books
       ELSE /\ books' = ValidBooks(run)
            /\ UNCHANGED rldErrors
    /\ rldIsLoading' = FALSE
    /\ UNCHANGED <<rldBookIds, rldOpen, rldShowDelete, rldIsDeleting, deleteListCalls>>

\* the Delete List button and the Cancel button of the confirmation
RldShowDelete(show) ==
    /\ rldOpen /\ rldShowDelete # show
    /\ ~show => ~rldIsDeleting
    /\ rldShowDelete' = show
    /\ UNCHANGED <<rldBookIds, rldOpen, books, rldIsLoading, rldIsDeleting, loadRuns,
                   deleteListCalls, rldErrors>>

\* a click on Delete Reading List (disabled={isDeleting}): handleDeleteList up
\* to its await; deleteReadingList throws without a request when nobody is
\* signed in
RldDeleteClick ==
    /\ rldShowDelete /\ ~rldIsDeleting
    /\ Outstanding(deleteListCalls) < MaxReviewCalls
    /\ rldIsDeleting' = TRUE
    /\ IF idpSession = NoUserId
       THEN deleteListCalls' = [deleteListCalls EXCEPT !.error = @ + 1]
       ELSE \E r \in {"ok", "error"} :
                 deleteListCalls' = [deleteListCalls EXCEPT ![r] = @ + 1]
    /\ UNCHANGED <<rldBookIds, rldOpen, books, rldIsLoading, rldShowDelete, loadRuns, rldErrors>>

\* deleteReadingList resolved: onListDeleted, setShowDeleteConfirm(false),
\* onClose, finally
RldDeleteResolved ==
    /\ deleteListCalls.ok > 0
    /\ deleteListCalls' = [deleteListCalls EXCEPT !.ok = @ - 1]
    /\ rldShowDelete' = FALSE
    /\ rldOpen' = FALSE
    /\ rldIsDeleting' = FALSE
    /\ UNCHANGED <<rldBookIds, books, rldIsLoading, loadRuns, rldErrors>>

\* deleteReadingList rejected: handleApiError, finally
RldDeleteRejected ==
    /\ deleteListCalls.error > 0
    /\ rldErrors < MaxErrors
    /\ deleteListCalls' = [deleteListCalls EXCEPT !.error = @ - 1]
    /\ rldErrors' = rldErrors + 1
    /\ rldIsDeleting' = FALSE
    /\ UNCHANGED <<rldBookIds, rldOpen, books, rldIsLoading, rldShowDelete, loadRuns>>

\* a click on the Remove button of a displayed book (disabled={isRemoving ===
\* book.id}): handleRemoveBook up to its await, keeping the books of the render
\* it was created in; removeBookFromReadingList throws without a current user
RldRemoveClick(b) ==
    /\ rldOpen /\ ~rldIsLoading
    /\ \E i \in 1..Len(books) : books[i] = b
    /\ isRemoving # b
    /\ BagCardinality(removeRuns) < MaxRemoveCalls
    /\ isRemoving' = b
    /\ \E r \in {"ok", "error"} :
          /\ idpSession = NoUserId => r = "error"
          /\ removeRuns' = removeRuns (+)
                 SetToBag({[book |-> b, books |-> books, result |-> r]})
    /\ UNCHANGED rldVars

\* removeBookFromReadingList resolved: onListUpdated(updatedList),
\* setBooks(books.filter(book => book.id !== bookId)), finally
RldRemoveResolved(run) ==
    /\ run \in BagToSet(removeRuns) /\ run.result = "ok"
    /\ removeRuns' = removeRuns (-) SetToBag({run})
    /\ books' = SelectSeq(run.books, LAMBDA x : x # run.book)
    /\ isRemoving' = "null"
    /\ UNCHANGED <<rldBookIds, rldOpen, rldIsLoading, rldShowDelete, rldIsDeleting,
                   loadRuns, deleteListCalls, rldErrors>>

\* removeBookFromReadingList rejected: handleApiError, finally
RldRemoveRejected(run) ==
    /\ run \in BagToSet(removeRuns) /\ run.result = "error"
    /\ rldErrors < MaxErrors
    /\ removeRuns' = removeRuns (-) SetToBag({run})
    /\ rldErrors' = rldErrors + 1
    /\ isRemoving' = "null"
    /\ UNCHANGED <<rldBookIds, rldOpen, books, rldIsLoading, rldShowDelete,
                   rldIsDeleting, loadRuns, deleteListCalls>>

\* every component beside the AuthProvider, the guard and the selector, idle
InitUi == InitWr /\ InitRc /\ InitVe /\ InitApi /\ InitRld

----------------------------------------------------------------------------
(* Specifications *)

\* the AuthProvider with every operation of its context value
Init == InitAuth /\ InitGuard /\ InitRole /\ InitSelIdle /\ InitUi

Next ==
    \/ CheckAuthGetRole /\ UNCHANGED <<guardVars, roleVars, selVars, uiVars>>
    \/ CheckAuthFailed /\ UNCHANGED <<guardVars, roleVars, selVars, uiVars>>
    \/ CheckAuthSetUser /\ UNCHANGED <<guardVars, roleVars, selVars, uiVars>>
    \/ LoginCall /\ UNCHANGED <<guardVars, roleVars, selVars, uiVars>>
    \/ LoginSignInFailed /\ UNCHANGED <<guardVars, roleVars, selVars, uiVars>>
    \/ LoginNotSignedIn /\ UNCHANGED <<guardVars, roleVars, selVars, uiVars>>
    \/ LoginGetUser /\ UNCHANGED <<guardVars, roleVars, selVars, uiVars>>
    \/ LoginGetUserFailed /\ UNCHANGED <<guardVars, roleVars, selVars, uiVars>>
    \/ LoginGetRole /\ UNCHANGED <<guardVars, roleVars, selVars, uiVars>>
    \/ LoginSetUser /\ UNCHANGED <<guardVars, roleVars, selVars, uiVars>>
    \/ LogoutCall /\ UNCHANGED <<guardVars, roleVars, selVars, uiVars>>
    \/ LogoutReturn /\ UNCHANGED <<guardVars, roleVars, selVars, uiVars>>
    \/ SignupCall /\ UNCHANGED <<guardVars, roleVars, selVars, uiVars>>
    \/ SignupReturn /\ UNCHANGED <<guardVars, roleVars, selVars, uiVars>>
    \/ ConfirmEmailCall /\ UNCHANGED <<guardVars, roleVars, selVars, uiVars>>
    \/ ConfirmEmailReturn /\ UNCHANGED <<guardVars, roleVars, selVars, uiVars>>
    \/ ResendCodeCall /\ UNCHANGED <<guardVars, roleVars, selVars, uiVars>>
    \/ ResendCodeReturn /\ UNCHANGED <<guardVars, roleVars, selVars, uiVars>>

Spec == Init /\ [][Next]_vars

\* ProtectedRoute over the AuthProvider's session operations
NextGuard ==
    \/ Visit /\ UNCHANGED <<roleVars, selVars, uiVars>>
    \/ Redirect /\ UNCHANGED <<roleVars, selVars, uiVars>>
    \/ WithRender(CheckAuthGetRole) /\ UNCHANGED <<roleVars, selVars, uiVars>>
    \/ WithRender(CheckAuthFailed) /\ UNCHANGED <<roleVars, selVars, uiVars>>
    \/ WithRender(CheckAuthSetUser) /\ UNCHANGED <<roleVars, selVars, uiVars>>
    \/ WithRender(LoginCall) /\ UNCHANGED <<roleVars, selVars, uiVars>>
    \/ WithRender(LoginSignInFailed) /\ UNCHANGED <<roleVars, selVars, uiVars>>
    \/ WithRender(LoginNotSignedIn) /\ UNCHANGED <<roleVars, selVars, uiVars>>
    \/ WithRender(LoginGetUser) /\ UNCHANGED <<roleVars, selVars, uiVars>>
    \/ WithRender(LoginGetUserFailed) /\ UNCHANGED <<roleVars, selVars, uiVars>>
    \/ WithRender(LoginGetRole) /\ UNCHANGED <<roleVars, selVars, uiVars>>
    \/ WithRender(LoginSetUser) /\ UNCHANGED <<roleVars, selVars, uiVars>>
    \/ WithRender(LogoutCall) /\ UNCHANGED <<roleVars, selVars, uiVars>>
    \/ WithRender(LogoutReturn) /\ UNCHANGED <<roleVars, selVars, uiVars>>

SpecGuard == Init /\ [][NextGuard]_vars

\* getUserRole over every answer of fetchAuthSession
InitRoleSpec == InitAuth /\ InitGuard /\ InitRoleInput /\ InitSelIdle /\ InitUi

NextRole == GetUserRoleCall /\ UNCHANGED <<authVars, guardVars, selVars, uiVars>>

SpecRole == InitRoleSpec /\ [][NextRole]_vars

\* ReadingListSelector against the reading-list server
InitSelSpec == InitAuth /\ InitGuard /\ InitRole /\ InitSel /\ InitUi

NextSel ==
    \/ SelOpen /\ UNCHANGED <<authVars, guardVars, roleVars, uiVars>>
    \/ SelClose /\ UNCHANGED <<authVars, guardVars, roleVars, uiVars>>
    \/ ServerLoad /\ UNCHANGED <<authVars, guardVars, roleVars, uiVars>>
    \/ \E r \in loadCalls.answered : LoadReturn(r) /\ UNCHANGED <<authVars, guardVars, roleVars, uiVars>>
    \/ \E l \in Lists : ClickAdd(l) /\ UNCHANGED <<authVars, guardVars, roleVars, uiVars>>
    \/ \E l \in Lists : ServerAdd(l) /\ UNCHANGED <<authVars, guardVars, roleVars, uiVars>>
    \/ \E l \in Lists : AddResolved(l) /\ UNCHANGED <<authVars, guardVars, roleVars, uiVars>>
    \/ \E l \in Lists : AddRejected(l) /\ UNCHANGED <<authVars, guardVars, roleVars, uiVars>>

SpecSel == InitSelSpec /\ [][NextSel]_vars

\* WriteReview under a settled AuthProvider, whose user may sign out
InitWrSpec == InitAuthSettled /\ InitGuard /\ InitRole /\ InitSelIdle /\ InitUi

NextWr ==
    \/ WrOpen /\ UNCHANGED <<authVars, guardVars, roleVars, selVars, rcVars, veVars, apiVars, rldVars, rmVars>>
    \/ WrCancel /\ UNCHANGED <<authVars, guardVars, roleVars, selVars, rcVars, veVars, apiVars, rldVars, rmVars>>
    \/ \E star \in Stars : SetRating(star) /\ UNCHANGED <<authVars, guardVars, roleVars, selVars, rcVars, veVars, apiVars, rldVars, rmVars>>
    \/ \E c \in Comments : SetComment(c) /\ UNCHANGED <<authVars, guardVars, roleVars, selVars, rcVars, veVars, apiVars, rldVars, rmVars>>
    \/ WrDismissAlert /\ UNCHANGED <<authVars, guardVars, roleVars, selVars, rcVars, veVars, apiVars, rldVars, rmVars>>
    \/ WrSubmitClick /\ UNCHANGED <<authVars, guardVars, roleVars, selVars, rcVars, veVars, apiVars, rldVars, rmVars>>
    \/ WrSubmitResolved /\ UNCHANGED <<authVars, guardVars, roleVars, selVars, rcVars, veVars, apiVars, rldVars, rmVars>>
    \/ WrSubmitRejected /\ UNCHANGED <<authVars, guardVars, roleVars, selVars, rcVars, veVars, apiVars, rldVars, rmVars>>
    \/ wrAlert = NoAlert /\ LogoutCall /\ UNCHANGED <<guardVars, roleVars, selVars, uiVars>>
    \/ wrAlert = NoAlert /\ LogoutReturn /\ UNCHANGED <<guardVars, roleVars, selVars, uiVars>>

SpecWr == InitWrSpec /\ [][NextWr]_vars

\* ReviewCard, given any review, under a settled AuthProvider
InitRcSpec ==
    /\ InitAuthSettled /\ InitGuard /\ InitRole /\ InitSelIdle /\ InitWr /\ InitVe /\ InitApi /\ InitRld
    /\ \E r \in Reviews : InitRcOf(r)

NextRc ==
    \/ RcStartEdit /\ UNCHANGED <<authVars, guardVars, roleVars, selVars, wrVars, veVars, apiVars, rldVars, rmVars>>
    \/ RcAskDelete /\ UNCHANGED <<authVars, guardVars, roleVars, selVars, wrVars, veVars, apiVars, rldVars, rmVars>>
    \/ \E star \in Stars : SetEditRating(star) /\ UNCHANGED <<authVars, guardVars, roleVars, selVars, wrVars, veVars, apiVars, rldVars, rmVars>>
    \/ \E c \in Comments : SetEditComment(c) /\ UNCHANGED <<authVars, guardVars, roleVars, selVars, wrVars, veVars, apiVars, rldVars, rmVars>>
    \/ RcCancelEdit /\ UNCHANGED <<authVars, guardVars, roleVars, selVars, wrVars, veVars, apiVars, rldVars, rmVars>>
    \/ RcCancelDelete /\ UNCHANGED <<authVars, guardVars, roleVars, selVars, wrVars, veVars, apiVars, rldVars, rmVars>>
    \/ RcUpdateClick /\ UNCHANGED <<authVars, guardVars, roleVars, selVars, wrVars, veVars, apiVars, rldVars, rmVars>>
    \/ RcUpdateResolved /\ UNCHANGED <<authVars, guardVars, roleVars, selVars, wrVars, veVars, apiVars, rldVars, rmVars>>
    \/ RcUpdateRejected /\ UNCHANGED <<authVars, guardVars, roleVars, selVars, wrVars, veVars, apiVars, rldVars, rmVars>>
    \/ RcDeleteClick /\ UNCHANGED <<authVars, guardVars, roleVars, selVars, wrVars, veVars, apiVars, rldVars, rmVars>>
    \/ RcDeleteResolved /\ UNCHANGED <<authVars, guardVars, roleVars, selVars, wrVars, veVars, apiVars, rldVars, rmVars>>
    \/ RcDeleteRejected /\ UNCHANGED <<authVars, guardVars, roleVars, selVars, wrVars, veVars, apiVars, rldVars, rmVars>>

SpecRc == InitRcSpec /\ [][NextRc]_vars

\* a ReviewCard of u1's review on a page whose user signs in and out; an open
\* dialog covers the page, so login and logout are started while none is open
InitRcAuthSpec ==
    /\ InitAuthSettled
    /\ user = NoUser <=> idpSession = NoUserId
    /\ user # NoUser => user.id = idpSession
    /\ InitGuard /\ InitRole /\ InitSelIdle /\ InitUi

NextRcAuth ==
    \/ NextRc
    \/ ~isEditing /\ ~showDeleteConfirm /\ LoginCall /\ UNCHANGED <<guardVars, roleVars, selVars, uiVars>>
    \/ LoginSignInFailed /\ UNCHANGED <<guardVars, roleVars, selVars, uiVars>>
    \/ LoginNotSignedIn /\ UNCHANGED <<guardVars, roleVars, selVars, uiVars>>
    \/ LoginGetUser /\ UNCHANGED <<guardVars, roleVars, selVars, uiVars>>
    \/ LoginGetUserFailed /\ UNCHANGED <<guardVars, roleVars, selVars, uiVars>>
    \/ LoginGetRole /\ UNCHANGED <<guardVars, roleVars, selVars, uiVars>>
    \/ LoginSetUser /\ UNCHANGED <<guardVars, roleVars, selVars, uiVars>>
    \/ ~isEditing /\ ~showDeleteConfirm /\ LogoutCall /\ UNCHANGED <<guardVars, roleVars, selVars, uiVars>>
    \/ LogoutReturn /\ UNCHANGED <<guardVars, roleVars, selVars, uiVars>>

SpecRcAuth == InitRcAuthSpec /\ [][NextRcAuth]_vars

\* the VerifyEmail page, visited once
NextVe ==
    \/ \E e \in NavEmails : VisitVerifyEmail(e) /\ UNCHANGED <<authVars, guardVars, roleVars, selVars, wrVars, rcVars, apiVars, rldVars, rmVars>>
    \/ \E c \in Codes : SetCode(c) /\ UNCHANGED <<authVars, guardVars, roleVars, selVars, wrVars, rcVars, apiVars, rldVars, rmVars>>
    \/ VerifyClick /\ UNCHANGED <<authVars, guardVars, roleVars, selVars, wrVars, rcVars, apiVars, rldVars, rmVars>>
    \/ VerifyResolved /\ UNCHANGED <<authVars, guardVars, roleVars, selVars, wrVars, rcVars, apiVars, rldVars, rmVars>>
    \/ \E n \in ConfirmErrors : VerifyRejected(n) /\ UNCHANGED <<authVars, guardVars, roleVars, selVars, wrVars, rcVars, apiVars, rldVars, rmVars>>
    \/ ResendClick /\ UNCHANGED <<authVars, guardVars, roleVars, selVars, wrVars, rcVars, apiVars, rldVars, rmVars>>
    \/ \E r \in {"ok", "error"} : ResendSettled(r) /\ UNCHANGED <<authVars, guardVars, roleVars, selVars, wrVars, rcVars, apiVars, rldVars, rmVars>>
    \/ BackToSignup /\ UNCHANGED <<authVars, guardVars, roleVars, selVars, wrVars, rcVars, apiVars, rldVars, rmVars>>

SpecVe == Init /\ [][NextVe]_vars

\* every API client function against every answer
InitApiSpec ==
    /\ InitAuth /\ InitGuard /\ InitRole /\ InitSelIdle /\ InitWr /\ InitRc /\ InitVe /\ InitRld
    /\ apiCall \in ApiCalls
    /\ apiOut = ApiPending

NextApi == ApiRun /\ UNCHANGED <<authVars, guardVars, roleVars, selVars, wrVars, rcVars, veVars, rldVars, rmVars>>

SpecApi == InitApiSpec /\ [][NextApi]_vars

\* ReadingListDetail: the parent's renders and loadBooks
NextRld ==
    \/ \E open \in BOOLEAN, ids \in BookIdLists :
          /\ (open # rldOpen \/ open)
          /\ RldRender(open, ids)
          /\ UNCHANGED <<authVars, guardVars, roleVars, selVars, wrVars, rcVars, veVars, apiVars, rmVars>>
    \/ \E run \in BagToSet(loadRuns) : LoadSettled(run) /\ UNCHANGED <<authVars, guardVars, roleVars, selVars, wrVars, rcVars, veVars, apiVars, rmVars>>

\* the signed-in user u1 is looking at one of their lists
InitRldSpec == Init /\ idpSession = "u1"

SpecRld == InitRldSpec /\ [][NextRld]_vars

\* the deletion of the open reading list
NextRldDelete ==
    \/ RldRender(TRUE, <<>>) /\ UNCHANGED <<authVars, guardVars, roleVars, selVars, wrVars, rcVars, veVars, apiVars, rmVars>>
    \/ \E show \in BOOLEAN : RldShowDelete(show) /\ UNCHANGED <<authVars, guardVars, roleVars, selVars, wrVars, rcVars, veVars, apiVars, rmVars>>
    \/ RldDeleteClick /\ UNCHANGED <<authVars, guardVars, roleVars, selVars, wrVars, rcVars, veVars, apiVars, rmVars>>
    \/ RldDeleteResolved /\ UNCHANGED <<authVars, guardVars, roleVars, selVars, wrVars, rcVars, veVars, apiVars, rmVars>>
    \/ RldDeleteRejected /\ UNCHANGED <<authVars, guardVars, roleVars, selVars, wrVars, rcVars, veVars, apiVars, rmVars>>

\* ReadingListDetail, opened once on a list whose books the user removes
NextRemove ==
    \/ \E ids \in BookIdLists :
          /\ ~rldOpen
          /\ RldRender(TRUE, ids)
          /\ UNCHANGED <<authVars, guardVars, roleVars, selVars, wrVars, rcVars, veVars, apiVars, rmVars>>
    \/ \E run \in BagToSet(loadRuns) : LoadSettled(run) /\ UNCHANGED <<authVars, guardVars, roleVars, selVars, wrVars, rcVars, veVars, apiVars, rmVars>>
    \/ \E b \in Books : RldRemoveClick(b) /\ UNCHANGED <<authVars, guardVars, roleVars, selVars, wrVars, rcVars, veVars, apiVars>>
    \/ \E run \in BagToSet(removeRuns) : RldRemoveResolved(run) /\ UNCHANGED <<authVars, guardVars, roleVars, selVars, wrVars, rcVars, veVars, apiVars>>
    \/ \E run \in BagToSet(removeRuns) : RldRemoveRejected(run) /\ UNCHANGED <<authVars, guardVars, roleVars, selVars, wrVars, rcVars, veVars, apiVars>>

SpecRemove == InitRldSpec /\ [][NextRemove]_vars

\* the components with one in-progress flag per operation.  They share no
\* state but the AuthProvider's, so each is run with the others untouched.
NextFlags ==
    \/ InitRc /\ InitVe /\ InitRld /\ NextWr
    \/ InitWr /\ InitVe /\ InitRld /\ NextRc
    \/ InitWr /\ InitRc /\ InitRld /\ NextVe
    \/ InitWr /\ InitRc /\ InitVe /\ NextRldDelete

SpecFlags == InitWrSpec /\ [][NextFlags]_vars

----------------------------------------------------------------------------
(* Properties *)

\* the role conditions of a guard that role r does not pass: requireAdmin admits
\* {admin}, requireModerator {admin, moderator}, allowedRoles the given roles
NotAllowed(r, props) ==
    \/ props.requireAdmin /\ r \notin {"admin"}
    \/ props.requireModerator /\ r \notin {"admin", "moderator"}
    \/ props.hasAllowedRoles /\ r \notin props.allowedRoles

\* C1: in the unauthenticated state (the startup check has finished and there is
\* no user) a mounted guard yields the redirect to /login, whatever its props;
\* and with no user a guard never renders its children.
C1_UnauthenticatedRedirectsToLogin ==
    (guard.mounted /\ user = NoUser) =>
        /\ rendered # "children"
        /\ ~isLoading => rendered = "/login"

C1_Witness ==
    /\ guard.mounted /\ guard.requireAdmin /\ guard.hasAllowedRoles
    /\ user = NoUser /\ ~isLoading
    /\ rendered = "/login"

\* C2: for an authenticated user whose role fails a role condition of the guard,
\* the guard never renders its children and, the startup check having finished,
\* yields the redirect to /; for every combination of the props, in every
\* reachable state.
C2_WrongRoleRedirectsHome ==
    (guard.mounted /\ user # NoUser /\ NotAllowed(user.role, guard)) =>
        /\ rendered # "children"
        /\ ~isLoading => rendered = "/"

C2_Witness ==
    /\ guard.mounted /\ guard.requireModerator /\ ~guard.requireAdmin
    /\ ~guard.hasAllowedRoles
    /\ ~isLoading /\ user # NoUser /\ user.role = "user"
    /\ rendered = "/"

\* C3: once loading has finished the guard's outcome is one of /login, / and
\* children, decided by the snapshot and the props alone: /login exactly when
\* there is no user, children exactly when there is a user who passes every
\* role condition that is set; and mounting or unmounting a guard changes no
\* auth state.
C3_Outcome ==
    (guard.mounted /\ ~isLoading) =>
        /\ rendered \in {"/login", "/", "children"}
        /\ rendered = "/login" <=> user = NoUser
        /\ rendered = "children" <=> (user # NoUser /\ ~NotAllowed(user.role, guard))

C3_GuardIsPureFunction ==
    /\ []C3_Outcome
    /\ [][guard' # guard => UNCHANGED authVars]_vars

C3_Witness ==
    /\ guard.mounted /\ guard.requireModerator /\ guard.hasAllowedRoles
    /\ guard.allowedRoles = {"moderator", "user"}
    /\ ~isLoading /\ user # NoUser /\ user.role = "moderator"
    /\ rendered = "children"

\* C4: the session is in exactly one of loading, authenticated, unauthenticated:
\* isAuthenticated exactly when a user record is present, and no user record
\* while isLoading.
C4_ThreeStates ==
    /\ isAuthenticated <=> user # NoUser
    /\ isLoading => user = NoUser

\* C5: a step that puts a (new) user record in place is the last step of a
\* login whose signIn reported isSignedIn, or the last step of a startup check
\* whose getCurrentUser found a session.
C5_AuthenticatedOnlyBySignInOrStartup ==
    [][(user' # NoUser /\ user' # user) =>
          \/ login.pc = "getUserRole" /\ login.result = "signedIn" /\ login'.pc = "idle"
          \/ checkAuth.pc = "getUserRole" /\ checkAuth.uid \in Users /\ checkAuth'.pc = "done"
      ]_vars

C5_Witness ==
    /\ user # NoUser /\ ~isLoading
    /\ login.pc = "idle"
    /\ signup.pc = "signUp" /\ signup.result = "complete"
    /\ confirmEmail.pc = "confirmSignUp"

\* C6: when a call of logout() returns, the user record is absent.
C6_LogoutClearsUser ==
    [][(logout.pc = "signOut" /\ logout'.pc = "idle") => user' = NoUser]_vars

\* C7: isLoading is true from creation until the startup check completes, is
\* false from then on whether the check succeeded or failed, never becomes true
\* again, and a check that failed leaves no user record.
C7_LoadingLeftOnce ==
    /\ [](isLoading <=> checkAuth.pc # "done")
    /\ [][~isLoading => ~isLoading']_vars
    /\ [][(checkAuth.pc = "getCurrentUser" /\ checkAuth.uid = "throw" /\ checkAuth'.pc = "done")
            => user' = NoUser]_vars

C7_Witness ==
    /\ checkAuth.pc = "done" /\ checkAuth.uid = "throw"
    /\ ~isLoading /\ user = NoUser

\* C8: each step into authenticated, by login or by the startup check, stores
\* the role derived from the session token that this same call read, whatever
\* record (and role) was held before.
C8_RoleResolvedOnEveryTransition ==
    [][/\ (login.pc = "getUserRole" /\ login'.pc = "idle") =>
             /\ user' # NoUser
             /\ user'.role = getUserRole(login.session)
       /\ (checkAuth.pc = "getUserRole" /\ checkAuth'.pc = "done") =>
             /\ user' # NoUser
             /\ user'.role = getUserRole(checkAuth.session)
      ]_vars

\* a second session: the user held is another one than the first, with another role
C8_Witness ==
    /\ checkAuth.pc = "done" /\ checkAuth.uid = "u1"
    /\ login.pc = "idle" /\ logout.pc = "idle"
    /\ user # NoUser /\ user.id = "u2" /\ user.role = "moderator"
    /\ idpSession = "u2"

\* the set of the groups in a cognito:groups array
GroupSet(session) ==
    IF session.kind = "groups"
    THEN {session.groups[i] : i \in 1..Len(session.groups)}
    ELSE {}

\* C9: getUserRole gives admin if the groups contain admin, otherwise moderator
\* if they contain moderator, otherwise user; a missing claim, missing tokens or
\* a fetchAuthSession that throws give user, never an error.
C9_RolePrecedence ==
    roleOut # "none" =>
        /\ roleOut \in Roles
        /\ roleOut = IF "admin" \in GroupSet(roleIn) THEN "admin"
                     ELSE IF "moderator" \in GroupSet(roleIn) THEN "moderator"
                     ELSE "user"
        /\ roleIn.kind \in {"throw", "noTokens", "noClaim"} => roleOut = "user"

C9_Witness ==
    /\ roleIn.kind = "groups"
    /\ Len(roleIn.groups) >= 2
    /\ roleIn.groups[1] = "moderator" /\ roleIn.groups[2] = "admin"
    /\ roleOut = "admin"

\* C10: no add request is issued by the selector for a list that already
\* contains the book.
C10_NoDuplicateAdd == \A r \in addLog : ~r.present

\* C11: a POST /reviews request is sent only from an authenticated provider
\* with a rating other than zero and a comment that is not empty after
\* trimming; a submission that handleSubmit rejects (its alert comes up) sends
\* no request and changes nothing of the form.
C11_SubmitOnlyValid ==
    [][/\ lastCreate' # lastCreate =>
            /\ isAuthenticated /\ rating # 0 /\ Trim(comment) # ""
            /\ lastCreate'.authenticated /\ lastCreate'.rating # 0
            /\ lastCreate'.comment # ""
       /\ (wrAlert = NoAlert /\ wrAlert' # NoAlert) =>
            UNCHANGED <<wrOpen, rating, comment, isSubmitting, createCalls, lastCreate>>]_vars
C11_Witness ==
    /\ lastCreate # NoRequest
    /\ wrAlert # NoAlert

\* C12: no PUT /reviews/:id request is ever sent with a blank comment or with
\* a rating of 0, whatever review the card was given.
C12_NoBlankOrZeroUpdate ==
    lastUpdate # NoRequest => (lastUpdate.rating # 0 /\ lastUpdate.comment # "")

\* C13: a call of signup resolves with needsVerification true exactly when
\* signUp answered that the sign-up is not complete, resolves with
\* needsVerification false exactly when it answered complete, and rejects
\* (delivering no result) exactly when signUp threw.
C13_SignupResult ==
    [][(signup.pc = "signUp" /\ signup'.pc = "idle") =>
          /\ (signup'.result = "needsVerification:true") <=> (signup.result = "confirm")
          /\ (signup'.result = "needsVerification:false") <=> (signup.result = "complete")
          /\ (signup'.result = "rejected") <=> (signup.result = "throw")
          /\ signup'.result \in {"needsVerification:true", "needsVerification:false",
                                 "rejected"}]_vars
C13_Witness == signup.pc = "idle" /\ signup.result = "needsVerification:true"

\* C18: every step of signup, confirmEmail and resendVerificationCode, whether
\* the call succeeds or fails, leaves user and isLoading as they were (so a
\* completed sign-up signs nobody in); a login whose signIn or getCurrentUser
\* threw settles rejected with the user record it found, and login rejects in
\* no other case.
C18_AuthFrame ==
    [][/\ (signup' # signup \/ confirmEmail' # confirmEmail \/ resendCode' # resendCode)
            => UNCHANGED <<user, isLoading>>
       /\ (login.pc # "idle" /\ login'.pc = "idle") =>
            LET failed == \/ login.pc = "signIn" /\ login.result = "throw"
                          \/ login.pc = "getCurrentUser" /\ login.uid = "throw"
            IN /\ failed => (user' = user /\ login'.result = "rejected")
               /\ login'.result = "rejected" => failed]_vars
C18_Witness ==
    /\ login.pc = "idle" /\ login.result = "rejected"
    /\ user # NoUser
    /\ signup.pc = "idle" /\ signup.result = "needsVerification:false"
    /\ confirmEmail.pc = "confirmSignUp" /\ confirmEmail.result = "throw"

\* C14: the verification form is rendered with exactly the email found in the
\* navigation state, and its requests carry that email; after a navigation
\* that carries no email the page redirects to /signup, the form is never
\* rendered and no confirm or resend request is ever made.
C14_VerifyEmailPage ==
    /\ veRendered = "form" => (veEmail = navEmail /\ navEmail \in Emails)
    /\ lastVerify.op # "none" => lastVerify.email = navEmail
    /\ (veRendered # "none" /\ navEmail \notin Emails) =>
          /\ veRendered = "/signup"
          /\ lastVerify.op = "none"
          /\ Outstanding(verifyCalls) = 0 /\ Outstanding(resendCalls) = 0
C14_Witness ==
    /\ navEmail \in Emails /\ lastVerify.op = "confirm" /\ veRendered = "form"

\* C15 (as claimed): every API client function that receives a non-success
\* response throws an error whose message contains the status and the body,
\* and returns no value.
C15_ErrorCarriesStatusAndBody ==
    (apiOut.requests = 1 /\ apiCall.status # "200") =>
        /\ apiOut.outcome = "throw"
        /\ {apiCall.status, "errorText"} \subseteq apiOut.message

\* C15 (amended): a non-success response makes every API client function
\* throw and return no value, except getBook, which returns null for a 404;
\* the message contains the status and the body for every function but
\* getBooks, getBook, createReadingList and updateReadingList, whose message
\* is a fixed text with neither.
C15_ErrorHandlingByFunction ==
    (apiOut.requests = 1 /\ apiCall.status # "200") =>
        IF apiCall.fn = "getBook" /\ apiCall.status = "404"
        THEN apiOut.outcome = "null"
        ELSE /\ apiOut.outcome = "throw"
             /\ IF apiCall.fn \in {"getBooks", "getBook", "createReadingList",
                                   "updateReadingList"}
                THEN apiOut.message \cap {apiCall.status, "errorText"} = {}
                ELSE {apiCall.status, "errorText"} \subseteq apiOut.message
C15_Witness ==
    /\ apiCall.fn = "createBook" /\ apiCall.status = "500"
    /\ apiOut.outcome = "throw"

\* C16 (as claimed): every API client call sends exactly one HTTP request,
\* which carries the bearer header exactly when the identity service returned
\* an id token; also with no session or a failing session lookup.
C16_SingleRequestWithHeader ==
    apiOut # ApiPending =>
        /\ apiOut.requests = 1
        /\ (apiOut.authorization = "Bearer token") <=> (apiCall.session = "token")
        /\ apiOut.authorization \in {"Bearer token", "absent"}

\* C16 (amended): a call sends exactly one HTTP request, carrying the bearer
\* header exactly when the identity service returned an id token (a failing
\* session lookup raises no error and sends the request without the header),
\* unless the function is one of the six that first require a current user
\* and there is none: then it throws and sends no request.
C16_SingleRequestUnlessNoUser ==
    apiOut # ApiPending =>
        IF /\ apiCall.user = "throw"
           /\ apiCall.fn \in {"deleteReadingList", "addBookToReadingList",
                              "removeBookFromReadingList", "createReview",
                              "updateReview", "deleteReview"}
        THEN apiOut.requests = 0 /\ apiOut.outcome = "throw"
        ELSE /\ apiOut.requests = 1
             /\ (apiOut.authorization = "Bearer token") <=> (apiCall.session = "token")
             /\ apiOut.authorization \in {"Bearer token", "absent"}
             /\ "getCurrentUser" \notin apiOut.message
C16_Witness ==
    /\ apiCall.fn = "getBooks" /\ apiCall.session = "throw"
    /\ apiOut.requests = 1 /\ apiOut.authorization = "absent"

\* C17: a run of loadBooks fetches every id of the list it was started for,
\* one getBook each.  When it settles with no fetch failed, the displayed
\* books are the found ones in the order of bookIds, the 404 ids left out, and
\* no error is surfaced; when a fetch failed, exactly one error is surfaced and
\* the displayed books stay as they were; either way isLoading is cleared.
C17_LoadBooksJointly ==
    [][/\ \A run \in BagToSet(loadRuns') :
             CopiesIn(run, loadRuns') > CopiesIn(run, loadRuns) =>
                /\ run.ids = rldBookIds'
                /\ DOMAIN run.answers = 1..Len(run.ids)
       /\ \A run \in BagToSet(loadRuns) :
             CopiesIn(run, loadRuns') < CopiesIn(run, loadRuns) =>
                LET n == Len(run.ids)
                    failed == \E i \in 1..n : run.answers[i] = "fail"
                    found == {i \in 1..n : run.answers[i] = "ok"}
                IN /\ ~rldIsLoading'
                   /\ failed => (books' = books /\ rldErrors' = rldErrors + 1)
                   /\ ~failed =>
                        /\ rldErrors' = rldErrors
                        /\ Len(books') = Cardinality(found)
                        /\ \A i \in found : \E k \in 1..Len(books') : books'[k] = run.ids[i]
                        /\ \A k, l \in 1..Len(books') :
                              k < l => \E i, j \in found :
                                          /\ i < j
                                          /\ books'[k] = run.ids[i]
                                          /\ books'[l] = run.ids[j]]_vars
C17_Witness ==
    /\ rldBookIds = <<"b2", "b1">>
    /\ books = <<"b1">>
    /\ rldErrors = 1
    /\ loadRuns = EmptyBag /\ ~rldIsLoading

\* C19: for review submission, review update, review deletion, reading-list
\* deletion, email confirmation and code resend, at most one request is
\* outstanding at any time, and the operation's in-progress flag is set
\* exactly while its request is outstanding (so it is cleared when the
\* request settles, resolved or rejected).
C19_OneOutstandingPerFlag ==
    /\ Outstanding(createCalls) <= 1 /\ (isSubmitting <=> Outstanding(createCalls) = 1)
    /\ Outstanding(updateCalls) <= 1 /\ (isUpdating <=> Outstanding(updateCalls) = 1)
    /\ Outstanding(deleteCalls) <= 1 /\ (isDeleting <=> Outstanding(deleteCalls) = 1)
    /\ Outstanding(deleteListCalls) <= 1
    /\ (rldIsDeleting <=> Outstanding(deleteListCalls) = 1)
    /\ Outstanding(verifyCalls) <= 1 /\ (isVerifying <=> Outstanding(verifyCalls) = 1)
    /\ Outstanding(resendCalls) <= 1 /\ (isResending <=> Outstanding(resendCalls) = 1)
C19_Witness ==
    /\ isVerifying /\ verifyCalls.error = 1
    /\ isResending /\ resendCalls.ok = 1
    /\ veError = ""

\* C20: at any time at most one add request of the ReadingListSelector is
\* awaiting the server's answer for a given reading list.
C20_OneAddPerList == \A l \in Lists : addCalls[l].sent <= 1

\* C21: a rejected email confirmation shows the message of the error's name
\* (CodeMismatchException: invalid code, ExpiredCodeException: expired code,
\* LimitExceededException: too many attempts, any other: the generic text),
\* does not navigate, does not call onVerificationComplete and clears
\* isVerifying; the page goes to /login only when a confirmation resolved.
C21_ConfirmErrorMessages ==
    [][/\ verifyCalls'.error < verifyCalls.error =>
            /\ caughtName' = "CodeMismatchException" =>
                 veError' = "Invalid verification code. Please check and try again."
            /\ caughtName' = "ExpiredCodeException" =>
                 veError' = "Verification code has expired. Please request a new one."
            /\ caughtName' = "LimitExceededException" =>
                 veError' = "Too many attempts. Please wait before trying again."
            /\ caughtName' \notin {"CodeMismatchException", "ExpiredCodeException",
                                   "LimitExceededException"} =>
                 veError' = "Failed to verify email. Please try again."
            /\ veRendered' = veRendered
            /\ completions' = completions
            /\ ~isVerifying'
       /\ (veRendered' = "/login" /\ veRendered # "/login") =>
            /\ verifyCalls'.ok < verifyCalls.ok
            /\ completions' = completions + 1]_vars
C21_Witness ==
    /\ caughtName = "ExpiredCodeException"
    /\ veError = "Verification code has expired. Please request a new one."
    /\ veRendered = "form" /\ ~isVerifying /\ completions = 0

\* C22: the edit and delete dialogs of a ReviewCard are open only for the
\* authenticated author of the review, and the card sends an updateReview or
\* deleteReview request only while the auth user is the review's author,
\* whatever sign-ins, sign-outs and clicks came before.
C22_ControlsOnlyForOwner ==
    [][/\ (isEditing' \/ showDeleteConfirm') => isOwnReview'
       /\ (/\ idpSession # NoUserId
           /\ \/ Outstanding(updateCalls') > Outstanding(updateCalls)
              \/ Outstanding(deleteCalls') > Outstanding(deleteCalls))
          => isOwnReview]_vars

\* C24: when a remove request for book b succeeds, b leaves the displayed
\* books and every other displayed book stays, also when the removals of
\* several books overlap and complete in any order.
C24_RemoveKeepsTheOthers ==
    [][\A run \in BagToSet(removeRuns) :
          (CopiesIn(run, removeRuns') < CopiesIn(run, removeRuns) /\ run.result = "ok")
             => books' = SelectSeq(books, LAMBDA x : x # run.book)]_vars

\* C25: once every fetch has settled (none of them failed), the books displayed
\* by an open ReadingListDetail are books of the latest bookIds: a loadBooks
\* run started for an older bookIds does not overwrite the newer result.
C25_LatestBookIdsDisplayed ==
    (rldOpen /\ loadRuns = EmptyBag /\ rldErrors = 0) =>
        \A k \in 1..Len(books) : \E i \in 1..Len(rldBookIds) : books[k] = rldBookIds[i]

\* C26: every request of getReadingLists carries the id of the user the
\* identity service reports as current; none carries another user id, and
\* none is sent for another id when no user is signed in.
C26_ReadingListsOfCurrentUser ==
    (apiOut # ApiPending /\ apiCall.fn = "getReadingLists" /\ apiOut.requests > 0) =>
        /\ apiCall.user \in Users
        /\ apiOut.userId = apiCall.user

\* C27: addBookToReadingList, removeBookFromReadingList, deleteReadingList,
\* createReview, updateReview and deleteReview throw without sending a request
\* when the identity service reports no current user, and otherwise send one
\* request that carries the current user's id.
C27_MutationsRequireUser ==
    (/\ apiOut # ApiPending
     /\ apiCall.fn \in {"addBookToReadingList", "removeBookFromReadingList",
                        "deleteReadingList", "createReview", "updateReview",
                        "deleteReview"}) =>
        IF apiCall.user = "throw"
        THEN apiOut.requests = 0 /\ apiOut.outcome = "throw"
        ELSE apiOut.requests = 1 /\ apiOut.userId = apiCall.user
C27_Witness ==
    /\ apiCall.fn = "deleteReview" /\ apiCall.user = "throw" /\ apiCall.status = "200"
    /\ apiOut.requests = 0 /\ apiOut.outcome = "throw"

\* C23: whenever neither the startup check nor a login nor a logout is in
\* flight, a user record is present exactly when the identity service holds a
\* signed-in session, and it is the record of that session's user.
C23_SnapshotAgreesWithSession ==
    (checkAuth.pc = "done" /\ login.pc = "idle" /\ logout.pc = "idle") =>
        /\ user = NoUser <=> idpSession = NoUserId
        /\ user # NoUser => user.id = idpSession

\* C28: a step of login changes the user record only as the last step of a
\* call whose signIn reported isSignedIn; a call whose signIn reported
\* isSignedIn false changes neither the user record, isLoading nor the session
\* and resolves; a call whose signIn or user lookup threw rejects with the
\* user record and isLoading as they were.
C28_LoginSetsUserOnlyWhenSignedIn ==
    [][login' # login =>
          /\ user' # user => (login.pc = "getUserRole" /\ login.result = "signedIn")
          /\ isLoading' = isLoading
          /\ (login.pc = "idle" /\ login'.result = "nextStep") => idpSession' = idpSession
          /\ (login.pc = "signIn" /\ login.result = "nextStep") =>
                /\ login' = LoginDone("resolved")
                /\ UNCHANGED <<user, isLoading, idpSession>>
          /\ (\/ login.pc = "signIn" /\ login.result = "throw"
              \/ login.pc = "getCurrentUser" /\ login.uid = "throw") =>
                /\ login' = LoginDone("rejected")
                /\ UNCHANGED <<user, isLoading>>]_vars
C28_Witness ==
    /\ login.pc = "signIn" /\ login.result = "nextStep" /\ login.email = "u2@x"
    /\ user # NoUser /\ user.id = "u1" /\ idpSession = "u1"
    /\ ~isLoading

\* C29: when a createReview of WriteReview resolves, onReviewCreated is called
\* once, the rating becomes 0, the comment empty and the modal is closed; when
\* it rejects, onReviewCreated is not called, the modal stays open and the
\* rating and the comment stay as entered; either way isSubmitting is cleared.
C29_SubmitAllOrNothing ==
    [][/\ createCalls'.ok < createCalls.ok =>
            /\ created' = created + 1
            /\ rating' = 0 /\ comment' = "" /\ ~wrOpen'
            /\ ~isSubmitting'
       /\ createCalls'.error < createCalls.error =>
            /\ created' = created
            /\ wrOpen' = wrOpen /\ rating' = rating /\ comment' = comment
            /\ ~isSubmitting'
       /\ created' # created => createCalls'.ok < createCalls.ok]_vars
C29_Witness ==
    /\ created = 1 /\ ~wrOpen
    /\ rating = 0 /\ comment = ""
    /\ ~isSubmitting /\ createCalls = NoCalls
    /\ lastCreate.rating = 4 /\ lastCreate.comment = "good"

\* C30: while isLoading is true a mounted guard yields the loading indicator
\* and nothing else, whatever its props and whoever the user is, and no
\* redirect of the guard takes effect while isLoading is true.
C30_OnlySpinnerWhileLoading ==
    [][/\ (guard'.mounted /\ isLoading') => rendered' = "spinner"
       /\ (guard.mounted /\ ~guard'.mounted) => ~isLoading]_vars
C30_Witness ==
    /\ guard.mounted /\ guard.requireAdmin /\ guard.hasAllowedRoles
    /\ isLoading /\ idpSession = "u1" /\ user = NoUser
    /\ checkAuth.pc = "getUserRole"
    /\ rendered = "spinner"
====
